---- MODULE Spec2Model ----
(***************************************************************************)
(* The user resource of the hapi mock server (routes/users.js together     *)
(* with the validation failAction of server.js): an in-memory lowdb        *)
(* collection seeded from db/users.json, the id counter uuid, the joi      *)
(* schema of the create payload and the three route handlers.              *)
(*                                                                         *)
(* A JavaScript string is the sequence of its UTF-16 code units, a JSON    *)
(* value is tagged with its type, and a JavaScript object is a function    *)
(* from its keys to values.                                                *)
(***************************************************************************)
EXTENDS Integers, Sequences, FiniteSets, TLC

VARIABLES
  users,     \* db.get("users").value(): the collection, in insertion order
  uuid,      \* the id the next created user gets
  request,   \* the request the server answered last
  response,  \* the response it sent to that request
  created,   \* the {id, payload} of every POST /user the handler answered, in order
  inflight   \* requests received and not yet answered, with their lifecycle stage

vars == <<users, uuid, request, response, created, inflight>>

----------------------------------------------------------------------------
(* JSON values *)

Undefined == [t |-> "undefined"]
Null == [t |-> "null"]
Num(n) == [t |-> "number", n |-> n]
Str(s) == [t |-> "string", s |-> s]

\* n copies of the code unit c
Rep(n, c) == [i \in 1..n |-> c]

\* { id, first_name, last_name, city, country }
User(id, first_name, last_name, city, country) ==
  [id |-> Num(id), first_name |-> Str(first_name), last_name |-> Str(last_name),
   city |-> Str(city), country |-> Str(country)]

\* db/users.json
initUserCollection ==
  <<
     \* 1 Guillaume Potapczuk, Dopang, Indonesia
     User(1, <<71, 117, 105, 108, 108, 97, 117, 109, 101>>,
          <<80, 111, 116, 97, 112, 99, 122, 117, 107>>,
          <<68, 111, 112, 97, 110, 103>>,
          <<73, 110, 100, 111, 110, 101, 115, 105, 97>>),
     \* 2 Torre Burnell, Shiqiao, China
     User(2, <<84, 111, 114, 114, 101>>,
          <<66, 117, 114, 110, 101, 108, 108>>,
          <<83, 104, 105, 113, 105, 97, 111>>,
          <<67, 104, 105, 110, 97>>),
     \* 3 Donalt Giannoni, General Elizardo Aquino, Paraguay
     User(3, <<68, 111, 110, 97, 108, 116>>,
          <<71, 105, 97, 110, 110, 111, 110, 105>>,
          <<71, 101, 110, 101, 114, 97, 108, 32, 69, 108, 105, 122, 97, 114, 100, 111, 32, 65, 113, 117, 105, 110, 111>>,
          <<80, 97, 114, 97, 103, 117, 97, 121>>),
     \* 4 Jade Warsap, Fuhe, China
     User(4, <<74, 97, 100, 101>>,
          <<87, 97, 114, 115, 97, 112>>,
          <<70, 117, 104, 101>>,
          <<67, 104, 105, 110, 97>>),
     \* 5 Violet Hinzer, Bondo, Democratic Republic of the Congo
     User(5, <<86, 105, 111, 108, 101, 116>>,
          <<72, 105, 110, 122, 101, 114>>,
          <<66, 111, 110, 100, 111>>,
          <<68, 101, 109, 111, 99, 114, 97, 116, 105, 99, 32, 82, 101, 112, 117, 98, 108, 105, 99, 32, 111, 102, 32, 116, 104, 101, 32, 67, 111, 110, 103, 111>>),
     \* 6 Eleanore Leiden, El Porvenir, Honduras
     User(6, <<69, 108, 101, 97, 110, 111, 114, 101>>,
          <<76, 101, 105, 100, 101, 110>>,
          <<69, 108, 32, 80, 111, 114, 118, 101, 110, 105, 114>>,
          <<72, 111, 110, 100, 117, 114, 97, 115>>),
     \* 7 Andris Bysouth, Moss, Norway
     User(7, <<65, 110, 100, 114, 105, 115>>,
          <<66, 121, 115, 111, 117, 116, 104>>,
          <<77, 111, 115, 115>>,
          <<78, 111, 114, 119, 97, 121>>),
     \* 8 Hilary Speenden, R?mhormoz, Iran
     User(8, <<72, 105, 108, 97, 114, 121>>,
          <<83, 112, 101, 101, 110, 100, 101, 110>>,
          <<82, 257, 109, 104, 111, 114, 109, 111, 122>>,
          <<73, 114, 97, 110>>),
     \* 9 Albertine Courage, Devon, Canada
     User(9, <<65, 108, 98, 101, 114, 116, 105, 110, 101>>,
          <<67, 111, 117, 114, 97, 103, 101>>,
          <<68, 101, 118, 111, 110>>,
          <<67, 97, 110, 97, 100, 97>>),
     \* 10 Aubert Favill, Murfreesboro, United States
     User(10, <<65, 117, 98, 101, 114, 116>>,
          <<70, 97, 118, 105, 108, 108>>,
          <<77, 117, 114, 102, 114, 101, 101, 115, 98, 111, 114, 111>>,
          <<85, 110, 105, 116, 101, 100, 32, 83, 116, 97, 116, 101, 115>>),
     \* 11 Rik Rushforth, Sidokumpul, Indonesia
     User(11, <<82, 105, 107>>,
          <<82, 117, 115, 104, 102, 111, 114, 116, 104>>,
          <<83, 105, 100, 111, 107, 117, 109, 112, 117, 108>>,
          <<73, 110, 100, 111, 110, 101, 115, 105, 97>>),
     \* 12 Nataline Pickvance, Arax?, Brazil
     User(12, <<78, 97, 116, 97, 108, 105, 110, 101>>,
          <<80, 105, 99, 107, 118, 97, 110, 99, 101>>,
          <<65, 114, 97, 120, 225>>,
          <<66, 114, 97, 122, 105, 108>>),
     \* 13 Irina Trounce, Kardzhin, Russia
     User(13, <<73, 114, 105, 110, 97>>,
          <<84, 114, 111, 117, 110, 99, 101>>,
          <<75, 97, 114, 100, 122, 104, 105, 110>>,
          <<82, 117, 115, 115, 105, 97>>),
     \* 14 Bowie Ranklin, Jinhe, China
     User(14, <<66, 111, 119, 105, 101>>,
          <<82, 97, 110, 107, 108, 105, 110>>,
          <<74, 105, 110, 104, 101>>,
          <<67, 104, 105, 110, 97>>)
  >>

\* a serialisation that keeps a key whose value is undefined
ToJSONKeepUndefined(obj) == obj

\* JSON.stringify of an object, as hapi sends it: a key whose value is
\* undefined is left out
ToJSON(obj) == [k \in {j \in DOMAIN obj : obj[j] # Undefined} |-> obj[k]]

\* JSON.stringify of an array of objects
ToJSONArray(arr) == [i \in 1..Len(arr) |-> ToJSON(arr[i])]

----------------------------------------------------------------------------
(* The joi schema of the create payload *)

SchemaKeys == <<"first_name", "last_name", "city", "country">>

userPostRequestSchema ==
  [first_name |-> [min |-> 3, max |-> 64, required |-> TRUE],
   last_name  |-> [min |-> 3, max |-> 64, required |-> FALSE],
   city       |-> [min |-> 1, max |-> 64, required |-> FALSE],
   country    |-> [min |-> 1, max |-> 64, required |-> TRUE]]

\* the length rules with the lower bound exclusive
JoiStringMinExclusive(v, rule) ==
  IF v.t # "string" THEN "string.base"
  ELSE IF Len(v.s) = 0 THEN "string.empty"
  ELSE IF Len(v.s) <= rule.min THEN "string.min"
  ELSE IF Len(v.s) > rule.max THEN "string.max"
  ELSE "ok"

\* Joi.string().min(a).max(b) on a value that is present: the type of the
\* first error, or "ok"
JoiString(v, rule) ==
  IF v.t # "string" THEN "string.base"
  ELSE IF Len(v.s) = 0 THEN "string.empty"
  ELSE IF Len(v.s) < rule.min THEN "string.min"
  ELSE IF Len(v.s) > rule.max THEN "string.max"
  ELSE "ok"

\* one key of the schema against the payload
JoiKey(payload, k) ==
  IF k \notin DOMAIN payload
    THEN IF userPostRequestSchema[k].required THEN "any.required" ELSE "ok"
    ELSE JoiString(payload[k], userPostRequestSchema[k])

\* a schema that allows unknown keys
JoiAllowUnknown(payload) == {}

\* Joi.object({...}) may not carry a key the schema does not name
JoiUnknownKeys(payload) ==
  DOMAIN payload \ {SchemaKeys[i] : i \in DOMAIN SchemaKeys}

\* userPostRequestSchema.validate(payload), stopping at the first error: the
\* keys of the schema in their order, then the keys it does not know.  The
\* error is the {type, label} joi renders its message from.
JoiValidate(payload) ==
  LET bad == {i \in DOMAIN SchemaKeys : JoiKey(payload, SchemaKeys[i]) # "ok"}
      first == CHOOSE i \in bad : \A j \in bad : i <= j
      unknown == JoiUnknownKeys(payload)
  IN  IF bad # {}
        THEN [error |-> TRUE,
              message |-> [type |-> JoiKey(payload, SchemaKeys[first]),
                           label |-> SchemaKeys[first]]]
      ELSE IF unknown # {}
        THEN [error |-> TRUE,
              message |-> [type |-> "object.unknown",
                           label |-> CHOOSE k \in unknown : TRUE]]
      ELSE [error |-> FALSE, message |-> [type |-> "ok", label |-> ""]]

\* Boom.badRequest(message)
BadRequest(message) ==
  [statusCode |-> 400,
   body |-> [statusCode |-> Num(400), error |-> "Bad Request", message |-> message]]

\* hapi's own answer to a failed validation, when no failAction is set
failActionDefault(err) == BadRequest([type |-> "generic", label |-> ""])

\* the server's default failAction
failAction(err) == BadRequest(err.message)

\* a handler's return value, sent with 200
Ok(body) == [statusCode |-> 200, body |-> body]

----------------------------------------------------------------------------
(* parseInt(string, 10) *)

NaN == [nan |-> TRUE, val |-> 0]

IsDigit(c) == c \in 48..57
IsWhiteSpace(c) == c \in {9, 10, 11, 12, 13, 32}

RECURSIVE TrimStart(_)
TrimStart(s) ==
  IF s # <<>> /\ IsWhiteSpace(Head(s)) THEN TrimStart(Tail(s)) ELSE s

\* the number of digits s starts with
RECURSIVE DigitPrefix(_)
DigitPrefix(s) ==
  IF s # <<>> /\ IsDigit(Head(s)) THEN 1 + DigitPrefix(Tail(s)) ELSE 0

\* the value of the digit string s, after acc
RECURSIVE Decimal(_, _)
Decimal(s, acc) ==
  IF s = <<>> THEN acc ELSE Decimal(Tail(s), 10 * acc + (Head(s) - 48))

\* a conversion that takes the whole string or nothing
parseWhole(string) ==
  IF string # <<>> /\ DigitPrefix(string) = Len(string)
    THEN [nan |-> FALSE, val |-> Decimal(string, 0)]
    ELSE NaN

parseInt(string) ==
  LET t == TrimStart(string)
      signed == t # <<>> /\ Head(t) \in {43, 45}
      sign == IF t # <<>> /\ Head(t) = 45 THEN -1 ELSE 1
      z == IF signed THEN Tail(t) ELSE t
      n == DigitPrefix(z)
  IN  IF n = 0 THEN NaN
      ELSE [nan |-> FALSE, val |-> sign * Decimal(SubSeq(z, 1, n), 0)]

\* lodash find({id: key}): the first element whose id equals key, or undefined
find(collection, key) ==
  LET hits == {i \in 1..Len(collection) :
                 ~key.nan /\ collection[i].id = Num(key.val)}
  IN  IF hits = {} THEN Undefined
      ELSE collection[CHOOSE i \in hits : \A j \in hits : i <= j]

\* `id ${id} not found`
NotFoundMessage(id) == <<105, 100, 32>> \o id \o <<32, 110, 111, 116, 32, 102, 111, 117, 110, 100>>

----------------------------------------------------------------------------
(* Bounds and the requests the model sends *)

\* handler-answered POST /user requests in one run
MaxCreates == 2
\* requests the server holds at once, in the specification of overlapping requests
MaxInFlight == 2

Ada == <<65, 100, 97>>
UK == <<85, 75>>
\* strings of a given length
S(n) == Rep(n, 97)

\* the key k with the value v
kv(k, v) == k :> v

\* create payloads: the accepted ones, then one for each way to fail
Payloads ==
  { kv("first_name", Str(Ada)) @@ kv("country", Str(UK)),
    kv("first_name", Str(Ada)) @@ kv("last_name", Str(S(3))) @@ kv("country", Str(UK)),
    kv("first_name", Str(Ada)) @@ kv("city", Str(S(1))) @@ kv("country", Str(S(1))),
    kv("first_name", Str(S(64))) @@ kv("last_name", Str(S(64)))
       @@ kv("city", Str(S(64))) @@ kv("country", Str(S(64))),
    kv("first_name", Str(S(2))) @@ kv("country", Str(UK)),
    kv("first_name", Str(S(65))) @@ kv("country", Str(UK)),
    kv("first_name", Str(Ada)),
    kv("country", Str(UK)),
    kv("first_name", Num(5)) @@ kv("country", Str(UK)),
    kv("first_name", Str(Ada)) @@ kv("country", Null),
    kv("first_name", Str(Ada)) @@ kv("last_name", Str(S(2))) @@ kv("country", Str(UK)),
    kv("first_name", Str(Ada)) @@ kv("city", Str(<<>>)) @@ kv("country", Str(UK)),
    kv("first_name", Str(Ada)) @@ kv("country", Str(S(65))),
    kv("first_name", Str(Ada)) @@ kv("country", Str(UK)) @@ kv("id", Num(99)),
    kv("first_name", Str(Ada)) @@ kv("country", Str(UK)) @@ kv("role", Str(S(5))),
    kv("first_name", Str(S(2))) @@ kv("country", Str(UK)) @@ kv("id", Num(1)) }

\* the {id} segments of GET /user/{id}
IdParams ==
  { <<49>>,                 \* "1"
    <<49, 52>>,             \* "14"
    <<49, 53>>,             \* "15"
    <<49, 54>>,             \* "16"
    <<57, 57, 57>>,         \* "999"
    <<48>>,                 \* "0"
    <<45, 49>>,             \* "-1"
    <<97, 98, 99>>,         \* "abc"
    <<49, 97, 98, 99>>,     \* "1abc"
    <<49, 46, 53>>,         \* "1.5"
    <<49, 53, 120>>,        \* "15x"
    <<46, 53>>,             \* ".5"
    <<120, 49>> }           \* "x1"

ListRequest == [method |-> "GET", path |-> "/user"]
GetRequest(id) == [method |-> "GET", path |-> "/user/{id}", id |-> id]
PostRequest(payload) == [method |-> "POST", path |-> "/user", payload |-> payload]

NoRequest == [method |-> "NONE", path |-> ""]
NoResponse == [statusCode |-> 0, body |-> [message |-> ""]]

----------------------------------------------------------------------------
(* The route handlers *)

\* GET /user
ListUsers ==
  /\ response' = Ok(ToJSONArray(users))
  /\ UNCHANGED <<users, uuid, created>>

\* a lookup by the segment itself, a string, which equals no stored id
GetUserNoParse(id) ==
  /\ response' = BadRequest(NotFoundMessage(id))
  /\ UNCHANGED <<users, uuid, created>>

\* a lookup with lodash remove, which takes the record out of the collection
GetUserRemove(id) ==
  LET user == find(users, parseInt(id))
  IN  /\ response' = IF user # Undefined THEN Ok(ToJSON(user))
                     ELSE BadRequest(NotFoundMessage(id))
      /\ users' = SelectSeq(users, LAMBDA u : u # user)
      /\ UNCHANGED <<uuid, created>>

\* GET /user/{id}
GetUser(id) ==
  LET user == find(users, parseInt(id))
  IN  /\ response' = IF user # Undefined THEN Ok(ToJSON(user))
                     ELSE BadRequest(NotFoundMessage(id))
      /\ UNCHANGED <<users, uuid, created>>

\* a create that does not advance the counter
CreateUserNoIncrement(payload) ==
  LET field(k) == IF k \in DOMAIN payload THEN payload[k] ELSE Undefined
      id == uuid
      newUser == [id |-> Num(id), first_name |-> field("first_name"),
                  last_name |-> field("last_name"), city |-> field("city"),
                  country |-> field("country")]
  IN  /\ uuid' = uuid
      /\ users' = Append(users, newUser)
      /\ response' = Ok([message |-> "user created", id |-> Num(id)])
      /\ created' = Append(created, [id |-> id, payload |-> payload])

\* a create that puts the new record first
CreateUserUnshift(payload) ==
  LET field(k) == IF k \in DOMAIN payload THEN payload[k] ELSE Undefined
      id == uuid
      newUser == [id |-> Num(id), first_name |-> field("first_name"),
                  last_name |-> field("last_name"), city |-> field("city"),
                  country |-> field("country")]
  IN  /\ uuid' = uuid + 1
      /\ users' = <<newUser>> \o users
      /\ response' = Ok([message |-> "user created", id |-> Num(id)])
      /\ created' = Append(created, [id |-> id, payload |-> payload])

\* a create that takes its id from the collection's length, leaving the
\* counter behind
CreateUserIdFromLength(payload) ==
  LET field(k) == IF k \in DOMAIN payload THEN payload[k] ELSE Undefined
      id == Len(users) + 1
      newUser == [id |-> Num(id), first_name |-> field("first_name"),
                  last_name |-> field("last_name"), city |-> field("city"),
                  country |-> field("country")]
  IN  /\ uuid' = uuid
      /\ users' = Append(users, newUser)
      /\ response' = Ok([message |-> "user created", id |-> Num(id)])
      /\ created' = Append(created, [id |-> id, payload |-> payload])

\* the handler of POST /user, which runs on a payload the schema accepted
CreateUser(payload) ==
  LET field(k) == IF k \in DOMAIN payload THEN payload[k] ELSE Undefined
      id == uuid
      newUser == [id |-> Num(id), first_name |-> field("first_name"),
                  last_name |-> field("last_name"), city |-> field("city"),
                  country |-> field("country")]
  IN  /\ uuid' = uuid + 1
      /\ users' = Append(users, newUser)
      /\ response' = Ok([message |-> "user created", id |-> Num(id)])
      /\ created' = Append(created, [id |-> id, payload |-> payload])

\* the failure of the route's payload validation
RejectPayload(err) ==
  /\ response' = failAction(err)
  /\ UNCHANGED <<users, uuid, created>>

\* POST /user: validate.payload, then failAction or the handler
PostUser(payload) ==
  LET result == JoiValidate(payload)
  IN  IF result.error THEN RejectPayload(result) ELSE CreateUser(payload)

----------------------------------------------------------------------------
(* One request at a time *)

Idle == [stage |-> "idle", req |-> NoRequest]

Init ==
  /\ users = initUserCollection
  /\ uuid = Len(initUserCollection) + 1
  /\ request = NoRequest
  /\ response = NoResponse
  /\ created = <<>>
  /\ inflight = [c \in 1..MaxInFlight |-> Idle]

List ==
  /\ request' = ListRequest
  /\ ListUsers
  /\ UNCHANGED inflight

Get ==
  \E id \in IdParams :
    /\ request' = GetRequest(id)
    /\ GetUser(id)
    /\ UNCHANGED inflight

Post ==
  \E payload \in Payloads :
    /\ JoiValidate(payload).error \/ Len(created) < MaxCreates
    /\ request' = PostRequest(payload)
    /\ PostUser(payload)
    /\ UNCHANGED inflight

Next == List \/ Get \/ Post

Spec == Init /\ [][Next]_vars

----------------------------------------------------------------------------
(* The route's validation on its own: one create, over the payloads at the
   edges of every rule *)

Absent == [t |-> "absent"]

PayloadOf(first_name, last_name, city, country, extra) ==
  LET given == [first_name |-> first_name, last_name |-> last_name, city |-> city,
                country |-> country, id |-> extra.id, role |-> extra.role]
  IN  [k \in {j \in DOMAIN given : given[j] # Absent} |-> given[k]]

BoundaryPayloads ==
  { PayloadOf(first_name, last_name, city, country, extra) :
      first_name \in {Absent, Null, Num(5), Str(<<>>), Str(S(2)), Str(S(3)), Str(S(64)), Str(S(65))},
      last_name \in {Absent, Num(5), Str(S(2)), Str(S(3)), Str(S(64)), Str(S(65))},
      city \in {Absent, Str(<<>>), Str(S(1)), Str(S(64)), Str(S(65))},
      country \in {Absent, Str(<<>>), Str(S(1)), Str(S(64)), Str(S(65))},
      extra \in {[id |-> Absent, role |-> Absent], [id |-> Num(99), role |-> Absent],
                 [id |-> Absent, role |-> Str(S(5))]} }

InitValidate ==
  /\ users = initUserCollection
  /\ uuid = Len(initUserCollection) + 1
  /\ request \in {PostRequest(payload) : payload \in BoundaryPayloads}
  /\ response = NoResponse
  /\ created = <<>>
  /\ inflight = [c \in 1..MaxInFlight |-> Idle]

Validate ==
  /\ response = NoResponse
  /\ PostUser(request.payload)
  /\ UNCHANGED <<request, inflight>>

NextValidate == Validate

SpecValidate == InitValidate /\ [][NextValidate]_vars

----------------------------------------------------------------------------
(* Overlapping requests.  The server holds several requests at once; each
   goes through its lifecycle (the payload validation of a POST, which is
   asynchronous, then the handler) and the steps of different requests
   interleave.  A handler is a synchronous function: it runs to its end as
   one step of the event loop. *)

OverlapRequests ==
  { ListRequest,
    GetRequest(<<49, 53>>),
    GetRequest(<<49, 54>>),
    PostRequest(kv("first_name", Str(Ada)) @@ kv("country", Str(UK))),
    PostRequest(kv("first_name", Str(Ada)) @@ kv("city", Str(S(1))) @@ kv("country", Str(UK))),
    PostRequest(kv("first_name", Str(S(2))) @@ kv("country", Str(UK))) }

\* a request arrives on connection c
Receive(c) ==
  /\ inflight[c] = Idle
  /\ \E req \in OverlapRequests :
       inflight' = [inflight EXCEPT ![c] = [stage |-> "received", req |-> req]]
  /\ UNCHANGED <<users, uuid, request, response, created>>

\* validate.payload of the POST on connection c: failAction answers it, or
\* it goes on to the handler
ValidatePayload(c) ==
  /\ inflight[c].stage = "received"
  /\ inflight[c].req.method = "POST"
  /\ LET result == JoiValidate(inflight[c].req.payload)
     IN  IF result.error
           THEN /\ RejectPayload(result)
                /\ request' = inflight[c].req
                /\ inflight' = [inflight EXCEPT ![c] = Idle]
           ELSE /\ inflight' = [inflight EXCEPT ![c].stage = "validated"]
                /\ UNCHANGED <<users, uuid, request, response, created>>

\* the handler of the request on connection c runs and answers it
Handle(c) ==
  LET req == inflight[c].req
  IN  /\ \/ inflight[c].stage = "received" /\ req.method = "GET"
         \/ inflight[c].stage = "validated" /\ Len(created) < MaxCreates
      /\ IF req.method = "POST" THEN CreateUser(req.payload)
         ELSE IF req.path = "/user" THEN ListUsers
         ELSE GetUser(req.id)
      /\ request' = req
      /\ inflight' = [inflight EXCEPT ![c] = Idle]

NextOverlap ==
  \E c \in 1..MaxInFlight : Receive(c) \/ ValidatePayload(c) \/ Handle(c)

SpecOverlap == Init /\ [][NextOverlap]_vars

----------------------------------------------------------------------------
(* What the claims speak of *)

\* identifier segments that are decimal integers, with their values
IntegerIds ==
  { [s |-> <<49>>, n |-> 1], [s |-> <<49, 52>>, n |-> 14],
    [s |-> <<49, 53>>, n |-> 15], [s |-> <<49, 54>>, n |-> 16],
    [s |-> <<57, 57, 57>>, n |-> 999], [s |-> <<48>>, n |-> 0],
    [s |-> <<45, 49>>, n |-> -1] }

\* identifier segments that are not: those that start with a decimal integer
\* (lead, its value) and those that do not
NonIntegerIds ==
  { [s |-> <<97, 98, 99>>, lead |-> FALSE, n |-> 0],      \* "abc"
    [s |-> <<46, 53>>, lead |-> FALSE, n |-> 0],          \* ".5"
    [s |-> <<120, 49>>, lead |-> FALSE, n |-> 0],         \* "x1"
    [s |-> <<49, 97, 98, 99>>, lead |-> TRUE, n |-> 1],   \* "1abc"
    [s |-> <<49, 46, 53>>, lead |-> TRUE, n |-> 1],       \* "1.5"
    [s |-> <<49, 53, 120>>, lead |-> TRUE, n |-> 15] }    \* "15x"

\* the positions of the records with id n
WithId(n) == {i \in 1..Len(users) : users[i].id = Num(n)}

\* the answer to a get-by-id for segment s that is looked up as the integer n
AnswerFor(s, n) ==
  IF WithId(n) # {}
    THEN \E i \in WithId(n) : response' = Ok(ToJSON(users[i]))
    ELSE /\ response'.statusCode = 400
         /\ response'.body.message = <<105, 100, 32>> \o s \o
                                     <<32, 110, 111, 116, 32, 102, 111, 117, 110, 100>>

\* the field rules of the data model, for one value
IsStringOfLength(v, lo, hi) == v.t = "string" /\ Len(v.s) >= lo /\ Len(v.s) <= hi

\* the four field rules on a payload
FieldRulesHold(p) ==
  /\ "first_name" \in DOMAIN p /\ IsStringOfLength(p["first_name"], 3, 64)
  /\ "country" \in DOMAIN p /\ IsStringOfLength(p["country"], 1, 64)
  /\ "last_name" \in DOMAIN p => IsStringOfLength(p["last_name"], 3, 64)
  /\ "city" \in DOMAIN p => IsStringOfLength(p["city"], 1, 64)

RuleKeys == {"first_name", "last_name", "city", "country"}

\* the record a create stores for id i and payload p
StoredRecord(i, p) ==
  [k \in {"id"} \cup RuleKeys |->
     IF k = "id" THEN Num(i) ELSE IF k \in DOMAIN p THEN p[k] ELSE Undefined]

\* the record a get returns for it: the id merged with the supplied fields
Merged(i, p) == kv("id", Num(i)) @@ p

IsPrefix(a, b) == Len(a) <= Len(b) /\ SubSeq(b, 1, Len(a)) = a

RecordsOf(cr) == [k \in 1..Len(cr) |-> StoredRecord(cr[k].id, cr[k].payload)]

----------------------------------------------------------------------------

\* C1: the k-th create the handler answers returns the id seed count + k, so
\* the returned ids are pairwise distinct, whatever list, get-by-id and
\* rejected create requests come in between.
C1_IdIsSeedCountPlusOrder ==
  /\ \A k \in 1..Len(created) : created[k].id = Len(initUserCollection) + k
  /\ \A j, k \in 1..Len(created) : j # k => created[j].id # created[k].id
  /\ (request.method = "POST" /\ response.statusCode = 200) =>
       response.body = [message |-> "user created",
                        id |-> Num(Len(initUserCollection) + Len(created))]

\* two creates answered, the second one just now
C1_Witness ==
  /\ Len(created) >= 2
  /\ request.method = "POST" /\ response.statusCode = 200

\* C2: once a create has returned id i for the fields f, a get-by-id for i
\* succeeds and returns {id: i} merged with f, without the omitted fields.
C2_RoundTrip ==
  \A k \in 1..Len(created) : \A e \in IntegerIds :
    (request = GetRequest(e.s) /\ e.n = created[k].id) =>
      response = Ok(Merged(e.n, created[k].payload))

\* the first created user, created without last_name and city, is fetched
\* after a second create
C2_Witness ==
  /\ Len(created) >= 2
  /\ DOMAIN created[1].payload = {"first_name", "country"}
  /\ request = GetRequest(<<49, 53>>)
  /\ response.statusCode = 200
  /\ DOMAIN response.body = {"id", "first_name", "country"}

\* C3: a create whose payload fails the schema is answered 400 with the
\* validator's message; the handler does not run, and the collection and the
\* counter stay as they are.
C3_RejectedCreate ==
  [][\A p \in Payloads :
       (request' = PostRequest(p) /\ JoiValidate(p).error) =>
         /\ response'.statusCode = 400
         /\ response'.body.message = JoiValidate(p).message
         /\ UNCHANGED <<users, uuid, created>>]_vars

\* a create was rejected after one was answered
C3_Witness ==
  /\ request.method = "POST" /\ response.statusCode = 400
  /\ response.body.message = [type |-> "string.min", label |-> "first_name"]
  /\ Len(created) = 1

\* C4 as stated: the validator accepts a payload exactly when the four field
\* rules hold of it (first_name and country present, each value a string of
\* its length range).
C4_AcceptsIffFieldRules ==
  response # NoResponse =>
    (response.statusCode = 200 <=> FieldRulesHold(request.payload))

\* C4 as the code has it: exactly when the four field rules hold and the
\* payload has no field besides the four.
C4_AcceptsIffFieldRulesAndNoOtherField ==
  response # NoResponse =>
    (response.statusCode = 200 <=>
       (FieldRulesHold(request.payload) /\ DOMAIN request.payload \subseteq RuleKeys))

\* a first_name of 65 characters, all else in order, was rejected
C4_Witness ==
  /\ response.statusCode = 400
  /\ request = PostRequest([first_name |-> Str(S(65)), last_name |-> Str(S(64)),
                            city |-> Str(S(1)), country |-> Str(S(64))])

\* C5 as stated: a payload that keeps the four field rules and carries one
\* more field is created, the field ignored.
C5_ExtraFieldIgnored ==
  [][\A p \in Payloads :
       (request' = PostRequest(p) /\ FieldRulesHold(p) /\ DOMAIN p \ RuleKeys # {}) =>
         /\ response'.statusCode = 200
         /\ users' = Append(users, StoredRecord(uuid, p))]_vars

\* C5 as the code has it: such a payload is rejected with 400, the message
\* saying that the field is not allowed, and nothing is stored.
C5_ExtraFieldRejected ==
  [][\A p \in Payloads :
       (request' = PostRequest(p) /\ FieldRulesHold(p) /\ DOMAIN p \ RuleKeys # {}) =>
         /\ response'.statusCode = 400
         /\ response'.body.message.type = "object.unknown"
         /\ response'.body.message.label \in DOMAIN p \ RuleKeys
         /\ UNCHANGED <<users, uuid, created>>]_vars

\* a payload with a client-supplied id was answered
C5_Witness ==
  /\ request.method = "POST"
  /\ "id" \in DOMAIN request.payload
  /\ FieldRulesHold(request.payload)
  /\ response.statusCode # 0

\* C6: a get-by-id with an integer id returns the record with that id when
\* the collection holds one, and otherwise fails with 400 and the message
\* "id <id> not found"; the collection and the counter stay as they are.
C6_GetById ==
  [][\A e \in IntegerIds :
       request' = GetRequest(e.s) =>
         /\ AnswerFor(e.s, e.n)
         /\ UNCHANGED <<users, uuid>>]_vars

\* "id 999 not found", after a create
C6_Witness ==
  /\ request = GetRequest(<<57, 57, 57>>)
  /\ response.statusCode = 400
  /\ Len(created) >= 1

C8_ListIsSeedThenCreated ==
  [][/\ IsPrefix(users, users')
     /\ users' = initUserCollection \o RecordsOf(created')
     /\ request' = ListRequest => response' = Ok(ToJSONArray(users'))]_vars

\* a list after two creates
C8_Witness ==
  /\ request = ListRequest
  /\ Len(created) >= 2
  /\ Len(response.body) = Len(initUserCollection) + 2

\* C9: with requests overlapping, a create is one step: the counter is
\* the collection's length plus one in every state a request can observe,
\* every id a create returned is the id of exactly one record, no two creates
\* returned the same id, and a list shows a record for every id issued.
C9_CreateIsAtomic ==
  /\ uuid = Len(users) + 1
  /\ \A k \in 1..Len(created) : Cardinality(WithId(created[k].id)) = 1
  /\ \A j, k \in 1..Len(created) : j # k => created[j].id # created[k].id
  /\ request = ListRequest => Len(response.body) = uuid - 1

\* two validated creates of the same payload wait for their handlers while
\* a list has just been answered after an earlier create
C9_Witness ==
  /\ inflight[1].stage = "validated" /\ inflight[2].stage = "validated"
  /\ inflight[1].req = inflight[2].req
  /\ Len(created) = 1
  /\ request = ListRequest

\* C10: list and get-by-id leave the collection and the counter as they are,
\* only an answered create changes them, and a read repeated at once returns
\* what it returned before.
C10_ReadsChangeNothing ==
  [][/\ request'.method = "GET" => UNCHANGED <<users, uuid, created>>
     /\ created' = created => UNCHANGED <<users, uuid>>
     /\ (request' = request /\ request.method = "GET") => response' = response]_vars

\* a failed get-by-id after a create
C10_Witness ==
  /\ request.method = "GET" /\ request.path = "/user/{id}"
  /\ response.statusCode = 400
  /\ Len(created) >= 1

====
